---- MODULE Spec2Model ----
(***************************************************************************)
(* Model of src/key.rs of rpgp: the parameter builders and their           *)
(* validation, key generation (KeyType::generate,                          *)
(* SecretKeyParams::generate) and the self-certification routines          *)
(* (KeyDetails::sign, PublicKey::sign, SecretKey::sign,                    *)
(* PublicSubkey::sign, SecretSubkey::sign).                                *)
(*                                                                         *)
(* Option<T> is a sequence of length at most one: None is <<>>, Some(v) is *)
(* <<v>>.  Vec<T> is a sequence.  Result<T> is a record with a status      *)
(* ("ok", "err", "panic"; "none" before the call) and an Option value.     *)
(***************************************************************************)
EXTENDS Integers, Sequences, FiniteSets, TLC

VARIABLES
    phase,      \* position of the calling program
    builder,    \* SecretKeyParamsBuilder
    subBuilt,   \* result of the last SubkeyParamsBuilder::build
    setterCalls, \* the user_id / subkey setter calls made so far, in call order
    built,      \* result of SecretKeyParamsBuilder::build
    osrng,      \* number of values drawn from the OS random source so far
    ktgen,      \* last stand-alone KeyType::generate call with its result
    key,        \* result of SecretKeyParams::generate (an unsigned SecretKey)
    signRes,    \* last sign call: operation, inputs and result
    armor,      \* result of to_armored_string on the signed key
    parsed,     \* result of SignedSecretKey::from_string
    unlockRes,  \* last unlock call with its result
    verifyRes   \* result of verify on the parsed key

vars == <<phase, builder, subBuilt, setterCalls, built, osrng, ktgen, key, signRes,
          armor, parsed, unlockRes, verifyRes>>

----------------------------------------------------------------------------
(* Bounds of the model *)

MaxUserIds == 2         \* additional user ids per key
MaxSubkeys == 1         \* subkey configurations per builder
MaxAttrs == 1           \* user attributes per key
MaxPubSubkeys == 1      \* public subkeys of a key under signature

----------------------------------------------------------------------------
(* Option and Result helpers *)

None == <<>>
Some(v) == <<v>>
IsSome(o) == Len(o) = 1
Unwrap(o) == o[1]
UnwrapOr(o, d) == IF IsSome(o) THEN o[1] ELSE d

Ok(v) == [status |-> "ok", err |-> "", value |-> Some(v)]
Err(e) == [status |-> "err", err |-> e, value |-> None]
NotCalled == [status |-> "none", err |-> "", value |-> None]

----------------------------------------------------------------------------
(* KeyType (src/key.rs 460-477) *)

Rsa(size) == [tag |-> "Rsa", size |-> size]
ECDH == [tag |-> "ECDH", size |-> 0]
EdDSA == [tag |-> "EdDSA", size |-> 0]

\* bit sizes around the validation limit
RsaSizes == {2047, 2048}
KeyTypes == {Rsa(s) : s \in RsaSizes} \cup {ECDH, EdDSA}

to_alg(kt) ==
    CASE kt.tag = "Rsa" -> "RSA"
      [] kt.tag = "ECDH" -> "ECDH"
      [] kt.tag = "EdDSA" -> "EdDSA"

----------------------------------------------------------------------------
(* Builders (derive(Builder) on SecretKeyParams and SubkeyParams) *)

\* The value of SecretKeyParamsBuilder::default(): every field unset.
SecretKeyParamsBuilder_default ==
    [key_type |-> None, can_sign |-> None, can_create_certificates |-> None,
     can_encrypt |-> None, preferred_symmetric_algorithms |-> None,
     preferred_hash_algorithms |-> None,
     preferred_compression_algorithms |-> None, revocation_key |-> None,
     primary_user_id |-> None, user_ids |-> None, user_attributes |-> None,
     passphrase |-> None, created_at |-> None, packet_version |-> None,
     version |-> None, expiration |-> None, subkeys |-> None]

\* The value of SubkeyParamsBuilder::default(): every field unset.
SubkeyParamsBuilder_default ==
    [key_type |-> None, can_sign |-> None, can_create_certificates |-> None,
     can_encrypt |-> None, user_ids |-> None, user_attributes |-> None,
     passphrase |-> None, created_at |-> None, packet_version |-> None,
     version |-> None, expiration |-> None]

\* validate with the ECDH arm left out and the RSA limit off by one.
validate_lax(b) ==
    IF IsSome(b.key_type) /\ Unwrap(b.key_type).tag = "Rsa"
    THEN IF Unwrap(b.key_type).size < 2047
         THEN Err("Keys with less than 2048bits are considered insecure")
         ELSE Ok("unit")
    ELSE IF IsSome(b.key_type) /\ Unwrap(b.key_type).tag = "EdDSA"
    THEN IF IsSome(b.can_encrypt) /\ Unwrap(b.can_encrypt)
         THEN Err("EdDSA can only be used for signing keys")
         ELSE Ok("unit")
    ELSE Ok("unit")

\* SecretKeyParamsBuilder::validate: the three rejected combinations.
validate(b) ==
    IF IsSome(b.key_type) /\ Unwrap(b.key_type).tag = "Rsa"
    THEN IF Unwrap(b.key_type).size < 2048
         THEN Err("Keys with less than 2048bits are considered insecure")
         ELSE Ok("unit")
    ELSE IF IsSome(b.key_type) /\ Unwrap(b.key_type).tag = "EdDSA"
    THEN IF IsSome(b.can_encrypt) /\ Unwrap(b.can_encrypt)
         THEN Err("EdDSA can only be used for signing keys")
         ELSE Ok("unit")
    ELSE IF IsSome(b.key_type) /\ Unwrap(b.key_type).tag = "ECDH"
    THEN IF IsSome(b.can_sign) /\ Unwrap(b.can_sign)
         THEN Err("ECDH can only be used for encryption keys")
         ELSE Ok("unit")
    ELSE Ok("unit")

\* chrono::Utc::now() at build time, types::Version::default() and
\* types::KeyVersion::default()
CreatedAtDefault == 0
VersionDefault == "New"
KeyVersionDefault == "V4"

\* SecretKeyParamsBuilder::build as derived with
\* build_fn(validate = "Self::validate"): validate first, then every field
\* is taken from the builder or from its default; key_type and
\* primary_user_id have no default.
SecretKeyParamsBuilder_build(b) ==
    IF validate(b).status = "err" THEN validate(b)
    ELSE IF ~IsSome(b.key_type) THEN Err("key_type must be initialized")
    ELSE IF ~IsSome(b.primary_user_id)
    THEN Err("primary_user_id must be initialized")
    ELSE Ok([key_type |-> Unwrap(b.key_type),
             can_sign |-> UnwrapOr(b.can_sign, FALSE),
             can_create_certificates |->
                 UnwrapOr(b.can_create_certificates, FALSE),
             can_encrypt |-> UnwrapOr(b.can_encrypt, FALSE),
             preferred_symmetric_algorithms |->
                 UnwrapOr(b.preferred_symmetric_algorithms, <<>>),
             preferred_hash_algorithms |->
                 UnwrapOr(b.preferred_hash_algorithms, <<>>),
             preferred_compression_algorithms |->
                 UnwrapOr(b.preferred_compression_algorithms, <<>>),
             revocation_key |-> UnwrapOr(b.revocation_key, None),
             primary_user_id |-> Unwrap(b.primary_user_id),
             user_ids |-> UnwrapOr(b.user_ids, <<>>),
             user_attributes |-> UnwrapOr(b.user_attributes, <<>>),
             passphrase |-> UnwrapOr(b.passphrase, None),
             created_at |-> UnwrapOr(b.created_at, CreatedAtDefault),
             packet_version |-> UnwrapOr(b.packet_version, VersionDefault),
             version |-> UnwrapOr(b.version, KeyVersionDefault),
             expiration |-> UnwrapOr(b.expiration, None),
             subkeys |-> UnwrapOr(b.subkeys, <<>>)])

\* SubkeyParamsBuilder::build as derived: SubkeyParams names no validate
\* function, so only the missing key_type is an error.
SubkeyParamsBuilder_build(b) ==
    IF ~IsSome(b.key_type) THEN Err("key_type must be initialized")
    ELSE Ok([key_type |-> Unwrap(b.key_type),
             can_sign |-> UnwrapOr(b.can_sign, FALSE),
             can_create_certificates |->
                 UnwrapOr(b.can_create_certificates, FALSE),
             can_encrypt |-> UnwrapOr(b.can_encrypt, FALSE),
             user_ids |-> UnwrapOr(b.user_ids, <<>>),
             user_attributes |-> UnwrapOr(b.user_attributes, <<>>),
             passphrase |-> UnwrapOr(b.passphrase, None),
             created_at |-> UnwrapOr(b.created_at, CreatedAtDefault),
             packet_version |-> UnwrapOr(b.packet_version, VersionDefault),
             version |-> UnwrapOr(b.version, KeyVersionDefault),
             expiration |-> UnwrapOr(b.expiration, None)])

\* SecretKeyParamsBuilder::user_id: push onto the list, creating it if unset.
user_id(b, value) ==
    IF IsSome(b.user_ids)
    THEN [b EXCEPT !.user_ids = Some(Append(Unwrap(b.user_ids), value))]
    ELSE [b EXCEPT !.user_ids = Some(<<value>>)]

\* SecretKeyParamsBuilder::subkey: push onto the list, creating it if unset.
subkey(b, value) ==
    IF IsSome(b.subkeys)
    THEN [b EXCEPT !.subkeys = Some(Append(Unwrap(b.subkeys), value))]
    ELSE [b EXCEPT !.subkeys = Some(<<value>>)]

----------------------------------------------------------------------------
(* The OS random source.  Every draw yields a value no earlier draw        *)
(* yielded: the k-th value drawn is k.  The state of the source is the     *)
(* number of values drawn so far.                                          *)

Draw(rng) == rng + 1

\* What can go wrong inside one KeyType::generate call: nothing, OsRng::new
\* fails, rsa::RSAPrivateKey::new fails, or PlainSecretParams::encrypt fails.
Faults == {"none", "no_rng", "rsa", "enc"}

----------------------------------------------------------------------------
(* KeyType::generate and its helpers (src/key.rs 479-598) *)

\* The 32 bytes of a curve25519 secret, cut to two so that their order shows.
SecretBytes(r) == <<r, 0>>
\* The public point of a secret.
PointOf(r) == <<r>>
Reverse(s) == [i \in 1..Len(s) |-> s[Len(s) + 1 - i]]

\* generate_rsa_key: the key's n, e as public and d, p, q, u as secret
\* parameters; the error of rsa::RSAPrivateKey::new is passed on.
generate_rsa_key(r, bit_size, fault) ==
    IF fault = "rsa" THEN Err("rsa key generation failed")
    ELSE Ok([pub |-> [alg |-> "RSA", n |-> <<"n", r, bit_size>>,
                      e |-> <<"e", r>>],
             plain |-> [alg |-> "RSA", d |-> <<"d", r>>, p |-> <<"p", r>>,
                        q |-> <<"q", r>>, u |-> <<"inv", "p", "q", r>>]])

\* generate_ecdh_key: 0x40 followed by the public point; the secret bytes
\* reversed.
generate_ecdh_key(r) ==
    [pub |-> [alg |-> "ECDH", curve |-> "Curve25519",
              p |-> <<64>> \o PointOf(r), hash |-> "SHA256",
              alg_sym |-> "AES128"],
     plain |-> [alg |-> "ECDH", secret |-> Reverse(SecretBytes(r))]]

\* generate_eddsa_key: 0x40 followed by the public half of the keypair; the
\* secret is the first half.
generate_eddsa_key(r) ==
    [pub |-> [alg |-> "EdDSA", curve |-> "Ed25519",
              q |-> <<64>> \o PointOf(r)],
     plain |-> [alg |-> "EdDSA", secret |-> SecretBytes(r)]]

\* types::StringToKey::new_default(rng): a descriptor with a fresh salt.
StringToKey_new_default(r) == [typ |-> "IteratedAndSalted", salt |-> r]

\* The symmetric key the string-to-key transform derives.
S2K_derive(s2k, passphrase) == <<s2k.salt, passphrase>>

\* PlainSecretParams::encrypt: the plain fields under the key derived from
\* the passphrase, with the algorithm, descriptor, version and checksum id.
PlainSecretParams_encrypt(plain, iv, passphrase, alg, s2k, version, id, fault) ==
    IF fault = "enc" THEN Err("encryption failed")
    ELSE Ok([data |-> [of |-> plain, under |-> S2K_derive(s2k, passphrase)],
             iv |-> iv, encryption_algorithm |-> alg, string_to_key |-> s2k,
             version |-> version, string_to_key_id |-> id])

Plain(p) == [variant |-> "Plain", params |-> p]
Encrypted(e) == [variant |-> "Encrypted", params |-> e]

\* A result that also carries the state of the random source after the call.
WithRng(res, rng) ==
    [status |-> res.status, err |-> res.err, value |-> res.value, rng |-> rng]
Panic(e) == [status |-> "panic", err |-> e, value |-> None]

\* KeyType::generate drawing the S2K descriptor before the key material.
KeyType_generate_s2k_first(kt, passphrase, rng, fault) ==
    IF fault = "no_rng" THEN WithRng(Panic("no system rng available"), rng)
    ELSE
    LET s2k == StringToKey_new_default(Draw(rng))
        r == IF IsSome(passphrase) THEN Draw(Draw(rng)) ELSE Draw(rng)
        gen == CASE kt.tag = "Rsa" -> generate_rsa_key(r, kt.size, fault)
                 [] kt.tag = "ECDH" -> Ok(generate_ecdh_key(r))
                 [] kt.tag = "EdDSA" -> Ok(generate_eddsa_key(r))
    IN  IF gen.status = "err" THEN WithRng(gen, r)
        ELSE
        LET pub_params == Unwrap(gen.value).pub
            plain == Unwrap(gen.value).plain
        IN  IF IsSome(passphrase)
            THEN LET iv == Draw(r)
                     enc == PlainSecretParams_encrypt(plain, iv,
                                Unwrap(passphrase), "AES256", s2k,
                                KeyVersionDefault, 254, fault)
                 IN  IF enc.status = "err" THEN WithRng(enc, iv)
                     ELSE WithRng(Ok([public_params |-> pub_params,
                                      secret_params |->
                                          Encrypted(Unwrap(enc.value))]), iv)
            ELSE WithRng(Ok([public_params |-> pub_params,
                             secret_params |-> Plain(plain)]), r)

\* KeyType::generate leaving the passphrase unused.
KeyType_generate_always_plain(kt, passphrase, rng, fault) ==
    IF fault = "no_rng" THEN WithRng(Panic("no system rng available"), rng)
    ELSE
    LET r == Draw(rng)
        gen == CASE kt.tag = "Rsa" -> generate_rsa_key(r, kt.size, fault)
                 [] kt.tag = "ECDH" -> Ok(generate_ecdh_key(r))
                 [] kt.tag = "EdDSA" -> Ok(generate_eddsa_key(r))
    IN  IF gen.status = "err" THEN WithRng(gen, r)
        ELSE WithRng(Ok([public_params |-> Unwrap(gen.value).pub,
                         secret_params |-> Plain(Unwrap(gen.value).plain)]),
                     r)

\* KeyType::generate: the key material from the first draw; with a passphrase
\* a fresh S2K descriptor, AES256 and checksum id 254; Plain without one.
KeyType_generate(kt, passphrase, rng, fault) ==
    IF fault = "no_rng" THEN WithRng(Panic("no system rng available"), rng)
    ELSE
    LET r == Draw(rng)
        gen == CASE kt.tag = "Rsa" -> generate_rsa_key(r, kt.size, fault)
                 [] kt.tag = "ECDH" -> Ok(generate_ecdh_key(r))
                 [] kt.tag = "EdDSA" -> Ok(generate_eddsa_key(r))
    IN  IF gen.status = "err" THEN WithRng(gen, r)
        ELSE
        LET pub_params == Unwrap(gen.value).pub
            plain == Unwrap(gen.value).plain
        IN  IF IsSome(passphrase)
            THEN LET s2k == StringToKey_new_default(Draw(r))
                     iv == Draw(Draw(r))
                     enc == PlainSecretParams_encrypt(plain, iv,
                                Unwrap(passphrase), "AES256", s2k,
                                KeyVersionDefault, 254, fault)
                 IN  IF enc.status = "err" THEN WithRng(enc, iv)
                     ELSE WithRng(Ok([public_params |-> pub_params,
                                      secret_params |->
                                          Encrypted(Unwrap(enc.value))]), iv)
            ELSE WithRng(Ok([public_params |-> pub_params,
                             secret_params |-> Plain(plain)]), r)

----------------------------------------------------------------------------
(* SecretKeyParams::generate (src/key.rs 389-458) *)

KeyFlags_default ==
    [certify |-> FALSE, sign |-> FALSE, encrypt_comms |-> FALSE,
     encrypt_storage |-> FALSE]
set_certify(kf, v) == [kf EXCEPT !.certify = v]
set_encrypt_comms(kf, v) == [kf EXCEPT !.encrypt_comms = v]
set_encrypt_storage(kf, v) == [kf EXCEPT !.encrypt_storage = v]
set_sign(kf, v) == [kf EXCEPT !.sign = v]

UserId_from_str(s) == [packet_version |-> VersionDefault, id |-> s]

\* The expiration clamped to the largest 16-bit value instead of cast.
ExpirationOf_saturating(expiration) ==
    IF IsSome(expiration)
    THEN Some(IF Unwrap(expiration) > 65535 THEN 65535
              ELSE Unwrap(expiration))
    ELSE None

\* expiration.map(|v| v.as_secs() as u16)
ExpirationOf(expiration) ==
    IF IsSome(expiration) THEN Some(Unwrap(expiration) % 65536) ELSE None

\* The keyflags with encrypt_storage set from can_sign.
KeyFlagsOf_storage_from_sign(p) ==
    set_sign(set_encrypt_storage(set_encrypt_comms(
        set_certify(KeyFlags_default, p.can_create_certificates),
        p.can_encrypt), p.can_sign), p.can_sign)

\* The keyflags of a primary key or subkey configuration.
KeyFlagsOf(p) ==
    set_sign(set_encrypt_storage(set_encrypt_comms(
        set_certify(KeyFlags_default, p.can_create_certificates),
        p.can_encrypt), p.can_encrypt), p.can_sign)

\* The packet (public part plus secret parameters) of a generated key.
KeyPacketOf(p, material) ==
    [details |-> [packet_version |-> p.packet_version,
                  version |-> p.version,
                  algorithm |-> to_alg(p.key_type),
                  created_at |-> p.created_at,
                  expiration |-> ExpirationOf(p.expiration),
                  public_params |-> material.public_params],
     secret_params |-> material.secret_params]

\* The closure mapped over self.subkeys: one SecretSubkey, or the error.
GenerateSubkey(sk, rng, fault) ==
    LET g == KeyType_generate(sk.key_type, sk.passphrase, rng, fault)
    IN  IF g.status # "ok" THEN g
        ELSE WithRng(Ok([key |-> KeyPacketOf(sk, Unwrap(g.value)),
                         keyflags |-> KeyFlagsOf(sk)]), g.rng)

\* into_iter().map(..).collect::<Result<Vec<_>>>(): the subkeys in order,
\* stopping at the first one that fails.  acc.log holds the status of every
\* KeyType::generate call made so far.
RECURSIVE CollectSubkeys(_, _, _, _)
CollectSubkeys(subkeys, faults, i, acc) ==
    IF i > Len(subkeys) THEN acc
    ELSE LET g == GenerateSubkey(subkeys[i], acc.rng, faults[i + 1])
         IN  IF g.status # "ok"
             THEN [status |-> g.status, err |-> g.err, value |-> None,
                   rng |-> g.rng, log |-> Append(acc.log, g.status)]
             ELSE CollectSubkeys(subkeys, faults, i + 1,
                      [status |-> "ok", err |-> "",
                       value |-> Some(Append(Unwrap(acc.value),
                                             Unwrap(g.value))),
                       rng |-> g.rng, log |-> Append(acc.log, "ok")])

\* SecretKeyParams::generate protecting the subkeys with the primary key's
\* passphrase when it has one.
SecretKeyParams_generate_primary_passphrase(p, rng, faults) ==
    LET g == KeyType_generate(p.key_type, p.passphrase, rng, faults[1])
    IN  IF g.status # "ok"
        THEN [status |-> g.status, err |-> g.err, value |-> None,
              rng |-> g.rng, log |-> <<g.status>>]
        ELSE
        LET primary_key == KeyPacketOf(p, Unwrap(g.value))
            keyflags == KeyFlagsOf(p)
            details ==
                [primary_user_id |-> UserId_from_str(p.primary_user_id),
                 user_ids |-> [i \in 1..Len(p.user_ids) |->
                                  UserId_from_str(p.user_ids[i])],
                 user_attributes |-> p.user_attributes,
                 keyflags |-> keyflags,
                 preferred_symmetric_algorithms |->
                     p.preferred_symmetric_algorithms,
                 preferred_hash_algorithms |-> p.preferred_hash_algorithms,
                 preferred_compression_algorithms |->
                     p.preferred_compression_algorithms,
                 revocation_key |-> p.revocation_key]
            subs == CollectSubkeys(
                        [i \in 1..Len(p.subkeys) |->
                            IF IsSome(p.passphrase)
                            THEN [p.subkeys[i] EXCEPT
                                      !.passphrase = p.passphrase]
                            ELSE p.subkeys[i]],
                        faults, 1,
                        [status |-> "ok", err |-> "", value |-> Some(<<>>),
                         rng |-> g.rng, log |-> <<"ok">>])
        IN  IF subs.status # "ok" THEN subs
            ELSE [status |-> "ok", err |-> "",
                  value |-> Some([primary_key |-> primary_key,
                                  details |-> details,
                                  public_subkeys |-> <<>>,
                                  secret_subkeys |-> Unwrap(subs.value)]),
                  rng |-> subs.rng, log |-> subs.log]

\* SecretKeyParams::generate.  faults[1] is what goes wrong in the primary
\* key's KeyType::generate call, faults[1 + i] in the i-th subkey's.  The
\* result carries the status of every KeyType::generate call made.
SecretKeyParams_generate(p, rng, faults) ==
    LET g == KeyType_generate(p.key_type, p.passphrase, rng, faults[1])
    IN  IF g.status # "ok"
        THEN [status |-> g.status, err |-> g.err, value |-> None,
              rng |-> g.rng, log |-> <<g.status>>]
        ELSE
        LET primary_key == KeyPacketOf(p, Unwrap(g.value))
            keyflags == KeyFlagsOf(p)
            details ==
                [primary_user_id |-> UserId_from_str(p.primary_user_id),
                 user_ids |-> [i \in 1..Len(p.user_ids) |->
                                  UserId_from_str(p.user_ids[i])],
                 user_attributes |-> p.user_attributes,
                 keyflags |-> keyflags,
                 preferred_symmetric_algorithms |->
                     p.preferred_symmetric_algorithms,
                 preferred_hash_algorithms |-> p.preferred_hash_algorithms,
                 preferred_compression_algorithms |->
                     p.preferred_compression_algorithms,
                 revocation_key |-> p.revocation_key]
            subs == CollectSubkeys(p.subkeys, faults, 1,
                        [status |-> "ok", err |-> "", value |-> Some(<<>>),
                         rng |-> g.rng, log |-> <<"ok">>])
        IN  IF subs.status # "ok" THEN subs
            ELSE [status |-> "ok", err |-> "",
                  value |-> Some([primary_key |-> primary_key,
                                  details |-> details,
                                  public_subkeys |-> <<>>,
                                  secret_subkeys |-> Unwrap(subs.value)]),
                  rng |-> subs.rng, log |-> subs.log]

----------------------------------------------------------------------------
(* What the signing routines use of their collaborators: the signing key   *)
(* (SecretKeyTrait), the signature configuration and the signing           *)
(* primitives of packet::SignatureConfig.                                  *)

\* SecretKeyTrait::algorithm
algorithm(k) == k.details.algorithm

\* SecretKeyTrait::key_id: a version 4 key has the id of its fingerprint, an
\* older RSA key the id of its modulus, any other key has none.
key_id(k) ==
    IF k.details.version = "V4" \/ k.details.algorithm = "RSA"
    THEN Some(<<"key id", k.details.public_params>>)
    ELSE None

\* SecretKeyTrait::fingerprint
fingerprint(k) == <<"fingerprint", k.details.public_params>>

\* packet::KeyFlags into Vec<u8>: the flags as the bits 0x01, 0x02, 0x04 and
\* 0x08 of one byte.
KeyFlags_into(kf) ==
    << (IF kf.certify THEN 1 ELSE 0) + (IF kf.sign THEN 2 ELSE 0)
       + (IF kf.encrypt_comms THEN 4 ELSE 0)
       + (IF kf.encrypt_storage THEN 8 ELSE 0) >>

Subpacket(name, val) == [name |-> name, val |-> val]

\* The inputs of one sign call that are not its arguments: the string the
\* passphrase callback returns, which invocation of the signing primitive
\* fails (0: none), and the clock.
SignEnv(pw, failAt, now, tick) ==
    [pw |-> pw, failAt |-> failAt, now |-> now, tick |-> tick]

\* The trace of one sign call: the signing steps entered, in order, the
\* number of invocations of the passphrase callback and of the signing
\* primitive.
EmptyTrace == [log |-> <<>>, calls |-> 0, prim |-> 0]

\* chrono::Utc::now() at a signing step
Now(env, st) == env.now + env.tick * Len(st.log)

\* SecretKeyTrait::unlock as the signing primitive uses it: an Encrypted key
\* asks the callback for the passphrase and opens only under the key that
\* protected it; a Plain key needs no passphrase.
NeedsPassphrase(k) == k.secret_params.variant = "Encrypted"
Unlocks(k, pw) ==
    \/ k.secret_params.variant = "Plain"
    \/ S2K_derive(k.secret_params.params.string_to_key, pw)
           = k.secret_params.params.data.under

\* SignatureConfig::sign_certificate, sign_key and sign_key_binding: unlock
\* the signing key, then sign the target under the configuration.
SignPrimitive(method, config, k, env, st, target) ==
    LET invoked == st.calls + (IF NeedsPassphrase(k) THEN 1 ELSE 0)
        prim == st.prim + 1
    IN  IF ~Unlocks(k, env.pw)
        THEN [status |-> "err", err |-> "wrong passphrase", value |-> None,
              calls |-> invoked, prim |-> prim]
        ELSE IF env.failAt = prim
        THEN [status |-> "err", err |-> "signing failed", value |-> None,
              calls |-> invoked, prim |-> prim]
        ELSE [status |-> "ok", err |-> "",
              value |-> Some([typ |-> config.typ, pub_alg |-> config.pub_alg,
                              hashed_subpackets |-> config.hashed_subpackets,
                              unhashed_subpackets |->
                                  config.unhashed_subpackets,
                              method |-> method, over |-> target,
                              signer |-> k.details.public_params]),
              calls |-> invoked, prim |-> prim]

\* SignatureConfigBuilder::default() with typ, pub_alg, hashed_subpackets
\* and unhashed_subpackets set, then build(): an error if one is unset.
SignatureConfigBuilder_build(typ, pub_alg, hashed, unhashed) ==
    IF ~IsSome(typ) \/ ~IsSome(pub_alg) \/ ~IsSome(hashed) \/ ~IsSome(unhashed)
    THEN Err("field must be initialized")
    ELSE Ok([typ |-> Unwrap(typ), pub_alg |-> Unwrap(pub_alg),
             hashed_subpackets |-> Unwrap(hashed),
             unhashed_subpackets |-> Unwrap(unhashed)])

\* The entry a signing step leaves in the trace.
Entry(kind, index, status, sig) ==
    [kind |-> kind, index |-> index, status |-> status, sig |-> sig]

\* s = config.sign_*(key, key_pw.clone(), ..): the outcome of the primitive
\* with the trace extended by this step.
SignWith(kind, index, st, s) ==
    [status |-> s.status, err |-> s.err, value |-> s.value,
     st |-> [log |-> Append(st.log, Entry(kind, index, s.status, s.value)),
             calls |-> s.calls, prim |-> s.prim]]

\* config = SignatureConfigBuilder ... build()?: an error leaves at once,
\* otherwise the primitive signs the target under the configuration.
SignUnder(kind, index, method, k, env, st, target, config) ==
    IF config.status = "err"
    THEN [status |-> "err", err |-> config.err, value |-> None,
          st |-> [st EXCEPT
                      !.log = Append(@, Entry(kind, index, "err", None))]]
    ELSE SignWith(kind, index, st,
                  SignPrimitive(method, Unwrap(config.value), k, env, st,
                                target))

\* A signing step that looks for the issuer key id only after the primitive
\* has run.
SignStep_key_id_late(kind, index, typ, hashed, method, k, env, st, target) ==
    IF ~IsSome(key_id(k))
    THEN [status |-> "panic", err |-> "missing key id", value |-> None,
          st |-> [log |-> Append(st.log, Entry(kind, index, "panic", None)),
                  calls |-> st.calls + (IF NeedsPassphrase(k) THEN 1 ELSE 0),
                  prim |-> st.prim + 1]]
    ELSE SignUnder(kind, index, method, k, env, st, target,
             SignatureConfigBuilder_build(Some(typ), Some(algorithm(k)),
                 Some(hashed),
                 Some(<<Subpacket("Issuer", Unwrap(key_id(k))),
                        Subpacket("IssuerFingerprint", fingerprint(k))>>)))

\* One signing step, common to every routine: the unhashed attributes name
\* the issuer (a signing key without key id aborts the call here), the
\* configuration is built, and the primitive signs the target.  The result
\* carries the trace extended by this step.
SignStep(kind, index, typ, hashed, method, k, env, st, target) ==
    IF ~IsSome(key_id(k))
    THEN [status |-> "panic", err |-> "missing key id", value |-> None,
          st |-> [st EXCEPT
                      !.log = Append(@, Entry(kind, index, "panic", None))]]
    ELSE SignUnder(kind, index, method, k, env, st, target,
             SignatureConfigBuilder_build(Some(typ), Some(algorithm(k)),
                 Some(hashed),
                 Some(<<Subpacket("Issuer", Unwrap(key_id(k))),
                        Subpacket("IssuerFingerprint", fingerprint(k))>>)))

----------------------------------------------------------------------------
(* KeyDetails::sign (src/key.rs 63-152) *)

\* The hashed attributes of the primary user id's certification.
PrimaryHashed(d, now) ==
    LET hashed_subpackets ==
            <<Subpacket("IsPrimary", TRUE),
              Subpacket("SignatureCreationTime", now),
              Subpacket("KeyFlags", KeyFlags_into(d.keyflags)),
              Subpacket("PreferredSymmetricAlgorithms",
                        d.preferred_symmetric_algorithms),
              Subpacket("PreferredHashAlgorithms",
                        d.preferred_hash_algorithms),
              Subpacket("PreferredCompressionAlgorithms",
                        d.preferred_compression_algorithms)>>
    IN  IF IsSome(d.revocation_key)
        THEN Append(hashed_subpackets,
                    Subpacket("RevocationKey", Unwrap(d.revocation_key)))
        ELSE hashed_subpackets

\* The additional user id's hashed attributes copied from the primary's.
OtherHashed_as_primary(d, now) == PrimaryHashed(d, now)

\* The hashed attributes of an additional user id's certification.
OtherHashed(d, now) ==
    <<Subpacket("SignatureCreationTime", now),
      Subpacket("KeyFlags", KeyFlags_into(d.keyflags)),
      Subpacket("PreferredSymmetricAlgorithms",
                d.preferred_symmetric_algorithms),
      Subpacket("PreferredHashAlgorithms", d.preferred_hash_algorithms),
      Subpacket("PreferredCompressionAlgorithms",
                d.preferred_compression_algorithms)>>

\* id.into_signed(sig)
into_signed(id, sig) == [id |-> id, signatures |-> <<sig>>]

\* let sig = config.sign_certificate(..)?; id.into_signed(sig)
SignedUserId(id, s) ==
    IF s.status # "ok" THEN s
    ELSE [s EXCEPT !.value = Some(into_signed(id, Unwrap(s.value)))]

\* The primary user id signed a second time after the first signature.
SignPrimaryUserId_twice(d, k, env, st) ==
    LET id == d.primary_user_id
        s == SignStep("primary_user_id", 0, "CertGeneric",
                      PrimaryHashed(d, Now(env, st)), "sign_certificate",
                      k, env, st, [tag |-> "UserId", packet |-> id])
        t == SignStep("primary_user_id", 0, "CertGeneric",
                      PrimaryHashed(d, Now(env, s.st)), "sign_certificate",
                      k, env, s.st, [tag |-> "UserId", packet |-> id])
    IN  IF s.status # "ok" THEN s ELSE SignedUserId(id, t)

\* The block signing the primary user id.
SignPrimaryUserId(d, k, env, st) ==
    SignedUserId(d.primary_user_id,
        SignStep("primary_user_id", 0, "CertGeneric",
                 PrimaryHashed(d, Now(env, st)), "sign_certificate", k, env,
                 st, [tag |-> "UserId", packet |-> d.primary_user_id]))

\* The closure signing the primary user id's packet for every user id.
SignOtherUserId_over_primary(d, id, i, k, env, st) ==
    SignedUserId(id,
        SignStep("user_id", i, "CertGeneric", OtherHashed(d, Now(env, st)),
                 "sign_certificate", k, env, st,
                 [tag |-> "UserId", packet |-> d.primary_user_id]))

\* The closure mapped over self.user_ids.
SignOtherUserId(d, id, i, k, env, st) ==
    SignedUserId(id,
        SignStep("user_id", i, "CertGeneric", OtherHashed(d, Now(env, st)),
                 "sign_certificate", k, env, st,
                 [tag |-> "UserId", packet |-> id]))

\* The signed form of an attribute or of a subkey: the packet as it was,
\* with the one signature made.
WithSignature(field, packet, s) ==
    IF s.status # "ok" THEN s
    ELSE [s EXCEPT !.value =
              Some(IF field = "attr"
                   THEN [attr |-> packet, signatures |-> <<Unwrap(s.value)>>]
                   ELSE [key |-> packet, signatures |-> <<Unwrap(s.value)>>])]

\* UserAttribute::sign: the attribute's own routine, with the same key and
\* a clone of the callback; it yields the attribute with one signature.
UserAttribute_sign(u, i, k, env, st) ==
    WithSignature("attr", u,
        SignStep("user_attribute", i, "CertGeneric",
                 <<Subpacket("SignatureCreationTime", Now(env, st))>>,
                 "sign_certificate", k, env, st,
                 [tag |-> "UserAttribute", packet |-> u]))

----------------------------------------------------------------------------
(* PublicSubkey::sign (src/key.rs 179-208) and SecretSubkey::sign          *)
(* (src/key.rs 237-265)                                                    *)

\* The hashed attributes of a subkey binding.
SubkeyHashed(sk, now) ==
    <<Subpacket("SignatureCreationTime", now),
      Subpacket("KeyFlags", KeyFlags_into(sk.keyflags))>>

\* PublicSubkey::sign: one binding signature made by sign_key.  index is the
\* subkey's place in the list it is signed from.
PublicSubkey_sign(sk, index, sec_key, env, st) ==
    WithSignature("key", sk.key,
        SignStep("public_subkey", index, "SubkeyBinding",
                 SubkeyHashed(sk, Now(env, st)), "sign_key", sec_key, env,
                 st, [tag |-> "PublicSubkey", packet |-> sk.key]))

\* SecretSubkey::sign reusing the binding of the public subkey.
SecretSubkey_sign_as_public(sk, index, sec_key, env, st) ==
    WithSignature("key", sk.key,
        SignStep("secret_subkey", index, "SubkeyBinding",
                 SubkeyHashed(sk, Now(env, st)), "sign_key", sec_key, env,
                 st, [tag |-> "PublicSubkey", packet |-> sk.key.details]))

\* SecretSubkey::sign: one binding signature made by sign_key_binding.
SecretSubkey_sign(sk, index, sec_key, env, st) ==
    WithSignature("key", sk.key,
        SignStep("secret_subkey", index, "SubkeyBinding",
                 SubkeyHashed(sk, Now(env, st)), "sign_key_binding", sec_key,
                 env, st, [tag |-> "SecretSubkey", packet |-> sk.key]))

----------------------------------------------------------------------------
(* into_iter().map(..).collect::<Result<Vec<_>>>()?: the items signed in   *)
(* list order, stopping at the first step that does not succeed.           *)

SignItem(kind, d, item, i, k, env, st) ==
    CASE kind = "user_id" -> SignOtherUserId(d, item, i, k, env, st)
      [] kind = "user_attribute" -> UserAttribute_sign(item, i, k, env, st)
      [] kind = "public_subkey" -> PublicSubkey_sign(item, i, k, env, st)
      [] kind = "secret_subkey" -> SecretSubkey_sign(item, i, k, env, st)

RECURSIVE CollectSigned(_, _, _, _, _, _, _)

\* s is the item at i, signed: an item that is not signed ends the
\* collection with its failure, a signed one is pushed and the next follows.
CollectNext(kind, d, items, k, env, i, acc, s) ==
    IF s.status # "ok" THEN s
    ELSE CollectSigned(kind, d, items, k, env, i + 1,
             [status |-> "ok", err |-> "",
              value |-> Some(Append(Unwrap(acc.value), Unwrap(s.value))),
              st |-> s.st])

CollectSigned(kind, d, items, k, env, i, acc) ==
    IF i > Len(items) THEN acc
    ELSE CollectNext(kind, d, items, k, env, i, acc,
                     SignItem(kind, d, items[i], i, k, env, acc.st))

Collected(st) == [status |-> "ok", err |-> "", value |-> Some(<<>>), st |-> st]

----------------------------------------------------------------------------
(* KeyDetails::sign, PublicKey::sign (src/key.rs 154-177) and              *)
(* SecretKey::sign (src/key.rs 210-235)                                    *)

\* The users list with the primary user id pushed after the others.
Users_primary_last(first, others) == Append(others, first)

\* let mut users = vec![primary]; users.extend(other user ids)
Users(first, others) == <<first>> \o others

\* KeyDetails::sign, its end: the user attributes are signed.
KeyDetails_signed(first, others, user_attributes) ==
    IF user_attributes.status # "ok" THEN user_attributes
    ELSE [status |-> "ok", err |-> "",
          value |-> Some([revocation_signatures |-> <<>>,
                          direct_signatures |-> <<>>,
                          users |-> Users(Unwrap(first.value),
                                          Unwrap(others.value)),
                          user_attributes |->
                              Unwrap(user_attributes.value)]),
          st |-> user_attributes.st]

\* KeyDetails::sign after the other user ids: the user attributes follow.
KeyDetails_sign_attributes(d, k, env, first, others) ==
    IF others.status # "ok" THEN others
    ELSE KeyDetails_signed(first, others,
             CollectSigned("user_attribute", d, d.user_attributes, k, env,
                           1, Collected(others.st)))

\* KeyDetails::sign after the primary user id: the other user ids follow.
KeyDetails_sign_users(d, k, env, first) ==
    IF first.status # "ok" THEN first
    ELSE KeyDetails_sign_attributes(d, k, env, first,
             CollectSigned("user_id", d, d.user_ids, k, env, 1,
                           Collected(first.st)))

KeyDetails_sign(d, k, env, st) ==
    KeyDetails_sign_users(d, k, env, SignPrimaryUserId(d, k, env, st))

\* PublicKey::sign, its end: the public subkeys are signed.
PublicKey_signed(primary_key, details, public_subkeys) ==
    IF public_subkeys.status # "ok" THEN public_subkeys
    ELSE [status |-> "ok", err |-> "",
          value |-> Some([primary_key |-> primary_key,
                          details |-> Unwrap(details.value),
                          public_subkeys |-> Unwrap(public_subkeys.value)]),
          st |-> public_subkeys.st]

\* PublicKey::sign after the details: the public subkeys follow.
PublicKey_sign_subkeys(pk, sec_key, env, details) ==
    IF details.status # "ok" THEN details
    ELSE PublicKey_signed(pk.primary_key, details,
             CollectSigned("public_subkey", pk.details, pk.public_subkeys,
                           sec_key, env, 1, Collected(details.st)))

PublicKey_sign(pk, sec_key, env, st) ==
    PublicKey_sign_subkeys(pk, sec_key, env,
        KeyDetails_sign(pk.details, sec_key, env, st))

\* SecretKey::sign returning the key without its secret subkeys when one
\* of them cannot be signed.
SecretKey_signed_partial(primary_key, details, public_subkeys, secret_subkeys) ==
    [status |-> "ok", err |-> "",
     value |-> Some([primary_key |-> primary_key,
                     details |-> Unwrap(details.value),
                     public_subkeys |-> Unwrap(public_subkeys.value),
                     secret_subkeys |->
                         UnwrapOr(secret_subkeys.value, <<>>)]),
     st |-> secret_subkeys.st]

\* SecretKey::sign, its end: the secret subkeys are signed.
SecretKey_signed(primary_key, details, public_subkeys, secret_subkeys) ==
    IF secret_subkeys.status # "ok" THEN secret_subkeys
    ELSE [status |-> "ok", err |-> "",
          value |-> Some([primary_key |-> primary_key,
                          details |-> Unwrap(details.value),
                          public_subkeys |-> Unwrap(public_subkeys.value),
                          secret_subkeys |-> Unwrap(secret_subkeys.value)]),
          st |-> secret_subkeys.st]

\* SecretKey::sign after the public subkeys: the secret subkeys follow.
SecretKey_sign_secret_subkeys(sk, env, details, public_subkeys) ==
    IF public_subkeys.status # "ok" THEN public_subkeys
    ELSE SecretKey_signed(sk.primary_key, details, public_subkeys,
             CollectSigned("secret_subkey", sk.details, sk.secret_subkeys,
                           sk.primary_key, env, 1,
                           Collected(public_subkeys.st)))

\* SecretKey::sign after the details: the public subkeys follow.
SecretKey_sign_public_subkeys(sk, env, details) ==
    IF details.status # "ok" THEN details
    ELSE SecretKey_sign_secret_subkeys(sk, env, details,
             CollectSigned("public_subkey", sk.details, sk.public_subkeys,
                           sk.primary_key, env, 1, Collected(details.st)))

SecretKey_sign(sk, env, st) ==
    SecretKey_sign_public_subkeys(sk, env,
        KeyDetails_sign(sk.details, sk.primary_key, env, st))

----------------------------------------------------------------------------
(* The calling program: it fills a builder, finalizes it and generates.    *)

UserIdNames == {"a", "b"}
Passphrases == {"hello", "wrong"}

\* The subkey builders a caller finalizes and hands to subkey().
SubBuilders ==
    {[SubkeyParamsBuilder_default EXCEPT !.key_type = kt, !.can_encrypt = ce]
        : kt \in {None, Some(Rsa(2048)), Some(ECDH), Some(EdDSA)},
          ce \in {None, Some(TRUE)}}

NoSubBuilt == [builder |-> SubkeyParamsBuilder_default, result |-> NotCalled]
NoKey == [status |-> "none", err |-> "", value |-> None, rng |-> 0,
          log |-> <<>>]
NoKeyTypeCall == [status |-> "none"]
NoSign == [op |-> "none", status |-> "none"]
NoUnlock == [status |-> "none"]

Idle ==
    /\ subBuilt = NoSubBuilt
    /\ setterCalls = <<>>
    /\ osrng = 0
    /\ ktgen = NoKeyTypeCall
    /\ key = NoKey
    /\ signRes = NoSign
    /\ armor = NotCalled
    /\ parsed = NotCalled
    /\ unlockRes = NoUnlock
    /\ verifyRes = NotCalled

Init ==
    /\ phase = "building"
    /\ builder = SecretKeyParamsBuilder_default
    /\ built = NotCalled
    /\ Idle

\* key_type(value)
SetKeyType(kt) ==
    /\ phase = "building"
    /\ builder' = [builder EXCEPT !.key_type = Some(kt)]
    /\ UNCHANGED <<phase, subBuilt, setterCalls, built, osrng, ktgen, key,
                   signRes, armor, parsed, unlockRes,
                   verifyRes>>

\* can_sign(value)
SetCanSign(v) ==
    /\ phase = "building"
    /\ builder' = [builder EXCEPT !.can_sign = Some(v)]
    /\ UNCHANGED <<phase, subBuilt, setterCalls, built, osrng, ktgen, key,
                   signRes, armor, parsed, unlockRes,
                   verifyRes>>

\* can_create_certificates(value)
SetCanCreateCertificates(v) ==
    /\ phase = "building"
    /\ builder' = [builder EXCEPT !.can_create_certificates = Some(v)]
    /\ UNCHANGED <<phase, subBuilt, setterCalls, built, osrng, ktgen, key,
                   signRes, armor, parsed, unlockRes,
                   verifyRes>>

\* can_encrypt(value)
SetCanEncrypt(v) ==
    /\ phase = "building"
    /\ builder' = [builder EXCEPT !.can_encrypt = Some(v)]
    /\ UNCHANGED <<phase, subBuilt, setterCalls, built, osrng, ktgen, key,
                   signRes, armor, parsed, unlockRes,
                   verifyRes>>

\* primary_user_id(value)
SetPrimaryUserId(v) ==
    /\ phase = "building"
    /\ builder' = [builder EXCEPT !.primary_user_id = Some(v)]
    /\ UNCHANGED <<phase, subBuilt, setterCalls, built, osrng, ktgen, key,
                   signRes, armor, parsed, unlockRes,
                   verifyRes>>

\* user_id(value)
AddUserId(v) ==
    /\ phase = "building"
    /\ Len(UnwrapOr(builder.user_ids, <<>>)) < MaxUserIds
    /\ builder' = user_id(builder, v)
    /\ setterCalls' = Append(setterCalls, [setter |-> "user_id", value |-> v])
    /\ UNCHANGED <<phase, subBuilt, built, osrng, ktgen, key, signRes, armor,
                   parsed, unlockRes,
                   verifyRes>>

\* subkey(sb.build().unwrap()): the subkey builder is finalized and, when
\* that succeeds, its configuration is handed to subkey().
AddSubkey(sb) ==
    /\ phase = "building"
    /\ Len(UnwrapOr(builder.subkeys, <<>>)) < MaxSubkeys
    /\ LET r == SubkeyParamsBuilder_build(sb)
       IN  /\ subBuilt' = [builder |-> sb, result |-> r]
           /\ IF r.status = "ok"
              THEN /\ builder' = subkey(builder, Unwrap(r.value))
                   /\ setterCalls' =
                          Append(setterCalls, [setter |-> "subkey",
                                               value |-> Unwrap(r.value)])
              ELSE UNCHANGED <<builder, setterCalls>>
    /\ UNCHANGED <<phase, built, osrng, ktgen, key, signRes, armor, parsed,
                   unlockRes,
                   verifyRes>>

\* build()
Build ==
    /\ phase = "building"
    /\ built' = SecretKeyParamsBuilder_build(builder)
    /\ phase' = "built"
    /\ UNCHANGED <<builder, subBuilt, setterCalls, osrng, ktgen, key, signRes,
                   armor, parsed, unlockRes,
                   verifyRes>>

\* generate() on the configuration build() returned
Generate(faults) ==
    /\ phase = "built"
    /\ built.status = "ok"
    /\ LET r == SecretKeyParams_generate(Unwrap(built.value), osrng, faults)
       IN  /\ key' = r
           /\ osrng' = r.rng
    /\ phase' = "generated"
    /\ UNCHANGED <<builder, subBuilt, setterCalls, built, ktgen, signRes,
                   armor, parsed, unlockRes,
                   verifyRes>>

FaultSeqs == [1..(1 + MaxSubkeys) -> Faults]

Next ==
    \/ \E kt \in KeyTypes : SetKeyType(kt)
    \/ \E v \in BOOLEAN : SetCanSign(v)
    \/ \E v \in BOOLEAN : SetCanCreateCertificates(v)
    \/ \E v \in BOOLEAN : SetCanEncrypt(v)
    \/ SetPrimaryUserId("me")
    \/ \E sb \in SubBuilders : AddSubkey(sb)
    \/ Build
    \/ \E faults \in FaultSeqs : Generate(faults)

Spec == Init /\ [][Next]_vars

----------------------------------------------------------------------------
(* A caller that configures expirations: Duration::from_secs values below, *)
(* at and above the range of a 16-bit integer.                             *)

Durations == {0, 3600, 65535, 65536, 69136, 131073}

\* What expiration(value) is called with.
ExpirationValues == {None} \cup {Some(d) : d \in Durations}

ExpBuilders ==
    {[SecretKeyParamsBuilder_default EXCEPT
          !.key_type = Some(kt), !.primary_user_id = Some("me"),
          !.can_sign = Some(TRUE), !.can_create_certificates = Some(TRUE)]
        : kt \in {Rsa(2048), EdDSA}}

ExpSubBuilders ==
    {[SubkeyParamsBuilder_default EXCEPT
          !.key_type = Some(ECDH), !.can_encrypt = Some(TRUE),
          !.expiration = e]
        : e \in {None} \cup {Some(v) : v \in ExpirationValues}}

InitExp ==
    /\ phase = "building"
    /\ builder \in ExpBuilders
    /\ built = NotCalled
    /\ Idle

\* expiration(value)
SetExpiration(v) ==
    /\ phase = "building"
    /\ builder' = [builder EXCEPT !.expiration = Some(v)]
    /\ UNCHANGED <<phase, subBuilt, setterCalls, built, osrng, ktgen, key,
                   signRes, armor, parsed, unlockRes, verifyRes>>

NextExp ==
    \/ \E v \in ExpirationValues : SetExpiration(v)
    \/ \E sb \in ExpSubBuilders : AddSubkey(sb)
    \/ Build
    \/ \E faults \in FaultSeqs : Generate(faults)

SpecExp == InitExp /\ [][NextExp]_vars

----------------------------------------------------------------------------
(* A caller that starts from a configured builder, adds user ids and       *)
(* subkeys, finalizes and generates; or calls KeyType::generate itself.    *)


\* Builders after key_type, primary_user_id, the capability setters and
\* passphrase were called or left out.
GenBuilders ==
    {[SecretKeyParamsBuilder_default EXCEPT
          !.key_type = Some(kt), !.primary_user_id = Some("me"),
          !.can_sign = caps[1], !.can_create_certificates = caps[2],
          !.can_encrypt = caps[3], !.passphrase = pp]
        : kt \in {Rsa(2048), ECDH, EdDSA},
          caps \in {<<Some(TRUE), Some(TRUE), None>>,
                    <<None, None, Some(TRUE)>>,
                    <<Some(TRUE), Some(FALSE), Some(TRUE)>>,
                    <<None, None, None>>},
          pp \in {None, Some(None), Some(Some("hello"))}}

\* Subkey builders with capabilities and passphrases of their own.
GenSubBuilders ==
    {[SubkeyParamsBuilder_default EXCEPT
          !.key_type = Some(c[1]), !.can_sign = c[2],
          !.can_create_certificates = c[3], !.can_encrypt = c[4],
          !.passphrase = c[5]]
        : c \in {<<Rsa(2048), None, None, Some(TRUE), None>>,
                 <<Rsa(2048), None, None, Some(TRUE), Some(Some("wrong"))>>,
                 <<ECDH, None, None, Some(TRUE), None>>,
                 <<EdDSA, Some(TRUE), Some(TRUE), None, Some(Some("hello"))>>}}

InitGen ==
    /\ phase = "building"
    /\ builder \in GenBuilders
    /\ built = NotCalled
    /\ Idle

\* kt.generate(passphrase), called on its own
KeyTypeGenerate(kt, passphrase, fault) ==
    /\ phase = "building"
    /\ setterCalls = <<>>
    /\ LET r == KeyType_generate(kt, passphrase, osrng, fault)
       IN  /\ ktgen' = [status |-> "done", kt |-> kt,
                        passphrase |-> passphrase, rng |-> osrng,
                        fault |-> fault, res |-> r]
           /\ osrng' = r.rng
    /\ phase' = "keytype_generated"
    /\ UNCHANGED <<builder, subBuilt, setterCalls, built, key, signRes, armor,
                   parsed, unlockRes,
                   verifyRes>>

NextGen ==
    \/ \E v \in UserIdNames : AddUserId(v)
    \/ \E sb \in GenSubBuilders : AddSubkey(sb)
    \/ Build
    \/ \E faults \in FaultSeqs : Generate(faults)
    \/ \E kt \in KeyTypes, pp \in {None} \cup {Some(pw) : pw \in Passphrases},
          fault \in Faults : KeyTypeGenerate(kt, pp, fault)

SpecGen == InitGen /\ [][NextGen]_vars

----------------------------------------------------------------------------
(* A caller that generates a key from a finalized configuration and signs  *)
(* it, or signs its parts, with the key's own primary key or another key.  *)

SeqsUpTo(S, n) == UNION {[1..m -> S] : m \in 0..n}

\* The subkey configurations of the keys that are signed: an encryption
\* subkey and a signing subkey.
SignSubkeyParams ==
    {SubkeyParamsBuilder_build(
         [SubkeyParamsBuilder_default EXCEPT
              !.key_type = Some(c[1]), !.can_sign = c[2],
              !.can_encrypt = c[3]]).value[1]
        : c \in {<<Rsa(2048), None, Some(TRUE)>>,
                 <<EdDSA, Some(TRUE), None>>}}

\* Builders of signing-capable primary keys: RSA and EdDSA in version 4,
\* EdDSA in version 3, with or without passphrase and revocation key, with
\* user ids, user attributes and subkeys.
SignBuilders ==
    {[SecretKeyParamsBuilder_default EXCEPT
          !.key_type = Some(c[1]), !.version = c[2],
          !.primary_user_id = Some("me"),
          !.can_sign = Some(TRUE), !.can_create_certificates = Some(TRUE),
          !.preferred_symmetric_algorithms = Some(<<"AES256", "AES192">>),
          !.preferred_hash_algorithms = Some(<<"SHA256", "SHA1">>),
          !.preferred_compression_algorithms = Some(<<"ZLIB", "ZIP">>),
          !.passphrase = pp, !.revocation_key = rk,
          !.user_ids = Some(uids), !.user_attributes = Some(attrs),
          !.subkeys = Some(subs)]
        : c \in {<<Rsa(2048), None>>, <<EdDSA, None>>, <<EdDSA, Some("V3")>>},
          pp \in {None, Some(Some("hello"))},
          rk \in {None, Some(Some("revoker"))},
          uids \in SeqsUpTo(UserIdNames, MaxUserIds),
          attrs \in SeqsUpTo({"photo"}, MaxAttrs),
          subs \in SeqsUpTo(SignSubkeyParams, MaxSubkeys)}

InitSign ==
    /\ phase = "built"
    /\ builder \in SignBuilders
    /\ built = SecretKeyParamsBuilder_build(builder)
    /\ Idle

\* The most signing steps one call makes.
MaxSteps == 1 + MaxUserIds + MaxAttrs + MaxPubSubkeys + MaxSubkeys

SignEnvs ==
    {SignEnv(pw, failAt, 1, 1) : pw \in Passphrases, failAt \in 0..MaxSteps}

\* A public subkey: a secret subkey without its secret parameters.
PublicSubkeyOf(ssk) == [key |-> ssk.key.details, keyflags |-> ssk.keyflags]

\* A secret key with the public form of its first n secret subkeys as
\* public subkeys.
WithPublicSubkeys(k, n) ==
    [k EXCEPT !.public_subkeys =
         [i \in 1..n |-> PublicSubkeyOf(k.secret_subkeys[i])]]

\* The public key of a secret key.
PublicKeyOf(k) ==
    [primary_key |-> k.primary_key.details, details |-> k.details,
     public_subkeys |-> k.public_subkeys]

\* A signing key that is not the key under signature: RSA, version 4,
\* protected by the passphrase "wrong".
OtherSigner ==
    KeyPacketOf([key_type |-> Rsa(2048), packet_version |-> VersionDefault,
                 version |-> KeyVersionDefault,
                 created_at |-> CreatedAtDefault, expiration |-> None],
                KeyType_generate(Rsa(2048), Some("wrong"), 50,
                                 "none").value[1])


SignResult(op, target, signer, env, r) ==
    [op |-> op, target |-> target, signer |-> signer, env |-> env,
     status |-> r.status, err |-> r.err, value |-> r.value,
     log |-> r.st.log, calls |-> r.st.calls, prim |-> r.st.prim]

Signing ==
    /\ phase = "generated"
    /\ key.status = "ok"
    /\ phase' = "signed"
    /\ UNCHANGED <<builder, subBuilt, setterCalls, built, osrng, ktgen, key,
                   armor, parsed, unlockRes,
                   verifyRes>>

\* key.sign(key_pw)
SecretKeySign(n, env) ==
    /\ Signing
    /\ n <= Len(key.value[1].secret_subkeys)
    /\ LET target == WithPublicSubkeys(key.value[1], n)
       IN  signRes' = SignResult("SecretKey_sign", target, target.primary_key,
                          env, SecretKey_sign(target, env, EmptyTrace))

\* public_key.sign(sec_key, key_pw)
PublicKeySign(other, n, env) ==
    /\ Signing
    /\ n <= Len(key.value[1].secret_subkeys)
    /\ LET target == PublicKeyOf(WithPublicSubkeys(key.value[1], n))
           signer == IF other THEN OtherSigner ELSE key.value[1].primary_key
       IN  signRes' = SignResult("PublicKey_sign", target, signer, env,
                          PublicKey_sign(target, signer, env, EmptyTrace))

\* details.sign(key, key_pw)
KeyDetailsSign(other, env) ==
    /\ Signing
    /\ LET target == key.value[1].details
           signer == IF other THEN OtherSigner ELSE key.value[1].primary_key
       IN  signRes' = SignResult("KeyDetails_sign", target, signer, env,
                          KeyDetails_sign(target, signer, env, EmptyTrace))

\* public_subkey.sign(sec_key, key_pw)
PublicSubkeySign(other, i, env) ==
    /\ Signing
    /\ i \in 1..Len(key.value[1].secret_subkeys)
    /\ LET target == PublicSubkeyOf(key.value[1].secret_subkeys[i])
           signer == IF other THEN OtherSigner ELSE key.value[1].primary_key
       IN  signRes' = SignResult("PublicSubkey_sign", target, signer, env,
                          PublicSubkey_sign(target, 1, signer, env,
                                            EmptyTrace))

\* secret_subkey.sign(sec_key, key_pw)
SecretSubkeySign(other, i, env) ==
    /\ Signing
    /\ i \in 1..Len(key.value[1].secret_subkeys)
    /\ LET target == key.value[1].secret_subkeys[i]
           signer == IF other THEN OtherSigner ELSE key.value[1].primary_key
       IN  signRes' = SignResult("SecretSubkey_sign", target, signer, env,
                          SecretSubkey_sign(target, 1, signer, env,
                                            EmptyTrace))

NextSign ==
    \/ \E faults \in FaultSeqs : Generate(faults)
    \/ \E n \in 0..MaxPubSubkeys, env \in SignEnvs : SecretKeySign(n, env)
    \/ \E other \in BOOLEAN, n \in 0..MaxPubSubkeys, env \in SignEnvs :
          PublicKeySign(other, n, env)
    \/ \E other \in BOOLEAN, env \in SignEnvs : KeyDetailsSign(other, env)
    \/ \E other \in BOOLEAN, i \in 1..MaxSubkeys, env \in SignEnvs :
          PublicSubkeySign(other, i, env)
    \/ \E other \in BOOLEAN, i \in 1..MaxSubkeys, env \in SignEnvs :
          SecretSubkeySign(other, i, env)

SpecSign == InitSign /\ [][NextSign]_vars

----------------------------------------------------------------------------
(* The signed key on the wire and back: to_armored_string,                 *)
(* SignedSecretKey::from_string and SignedSecretKey::unlock, as the tests  *)
(* use them.                                                               *)

Packet(tag, body) == [tag |-> tag, body |-> body]

\* A component followed by its signatures, as packets.
RECURSIVE SignaturePackets(_, _)
SignaturePackets(sigs, i) ==
    IF i > Len(sigs) THEN <<>>
    ELSE <<Packet("Signature", sigs[i])>> \o SignaturePackets(sigs, i + 1)

RECURSIVE ComponentPackets(_, _, _, _)
ComponentPackets(tag, field, items, i) ==
    IF i > Len(items) THEN <<>>
    ELSE <<Packet(tag, items[i][field])>>
         \o SignaturePackets(items[i].signatures, 1)
         \o ComponentPackets(tag, field, items, i + 1)

\* to_armored_string: the packets of the key in transferable order inside
\* a private key block.
to_armored_string(signed) ==
    Ok([block |-> "PGP PRIVATE KEY BLOCK",
        packets |->
            <<Packet("SecretKey", signed.primary_key)>>
            \o SignaturePackets(signed.details.revocation_signatures, 1)
            \o SignaturePackets(signed.details.direct_signatures, 1)
            \o ComponentPackets("UserId", "id", signed.details.users, 1)
            \o ComponentPackets("UserAttribute", "attr",
                                signed.details.user_attributes, 1)
            \o ComponentPackets("PublicSubkey", "key",
                                signed.public_subkeys, 1)
            \o ComponentPackets("SecretSubkey", "key",
                                signed.secret_subkeys, 1)])

\* A signature packet is added to the component last read.
AttachSignature(acc, sig) ==
    CASE acc.last = "SecretKey" ->
             [acc EXCEPT !.direct = Append(@, sig)]
      [] acc.last = "UserId" ->
             [acc EXCEPT !.users[Len(acc.users)].signatures = Append(@, sig)]
      [] acc.last = "UserAttribute" ->
             [acc EXCEPT !.attrs[Len(acc.attrs)].signatures = Append(@, sig)]
      [] acc.last = "PublicSubkey" ->
             [acc EXCEPT !.pubs[Len(acc.pubs)].signatures = Append(@, sig)]
      [] acc.last = "SecretSubkey" ->
             [acc EXCEPT !.secs[Len(acc.secs)].signatures = Append(@, sig)]

RECURSIVE ParsePackets(_, _, _)
ParsePackets(pkts, i, acc) ==
    IF i > Len(pkts) THEN acc
    ELSE LET pk == pkts[i]
             next ==
                 CASE pk.tag = "Signature" -> AttachSignature(acc, pk.body)
                   [] pk.tag = "UserId" ->
                          [acc EXCEPT !.last = "UserId",
                               !.users = Append(@, [id |-> pk.body,
                                                    signatures |-> <<>>])]
                   [] pk.tag = "UserAttribute" ->
                          [acc EXCEPT !.last = "UserAttribute",
                               !.attrs = Append(@, [attr |-> pk.body,
                                                    signatures |-> <<>>])]
                   [] pk.tag = "PublicSubkey" ->
                          [acc EXCEPT !.last = "PublicSubkey",
                               !.pubs = Append(@, [key |-> pk.body,
                                                   signatures |-> <<>>])]
                   [] pk.tag = "SecretSubkey" ->
                          [acc EXCEPT !.last = "SecretSubkey",
                               !.secs = Append(@, [key |-> pk.body,
                                                   signatures |-> <<>>])]
                   [] OTHER -> acc
         IN  ParsePackets(pkts, i + 1, next)

\* SignedSecretKey::from_string: a private key block that starts with a
\* secret key packet, its packets grouped into the key's components.
SignedSecretKey_from_string(text) ==
    IF text.block # "PGP PRIVATE KEY BLOCK" \/ Len(text.packets) = 0
    THEN Err("no private key block")
    ELSE IF text.packets[1].tag # "SecretKey"
    THEN Err("no secret key packet")
    ELSE LET acc == ParsePackets(text.packets, 2,
                        [last |-> "SecretKey", direct |-> <<>>,
                         users |-> <<>>, attrs |-> <<>>, pubs |-> <<>>,
                         secs |-> <<>>])
         IN  Ok([primary_key |-> text.packets[1].body,
                 details |-> [revocation_signatures |-> <<>>,
                              direct_signatures |-> acc.direct,
                              users |-> acc.users,
                              user_attributes |-> acc.attrs],
                 public_subkeys |-> acc.pubs,
                 secret_subkeys |-> acc.secs])

\* SignedSecretKey::unlock(pw, work) with work = |_| Ok(()): the primary
\* key's secret parameters are opened; an Encrypted key opens only under the
\* passphrase that protected it, and the failure is a decryption error.
SignedSecretKey_unlock(k, pw) ==
    IF Unlocks(k.primary_key, pw) THEN Ok("unit")
    ELSE Err("decryption failed")

\* Builders of the key generation scenarios: an RSA primary key with an RSA
\* encryption subkey and an EdDSA primary key with an ECDH encryption
\* subkey, with a passphrase, with an empty one, and without.
UnlockBuilders ==
    {[SecretKeyParamsBuilder_default EXCEPT
          !.key_type = Some(c[1]), !.primary_user_id = Some("me"),
          !.can_sign = Some(TRUE), !.can_create_certificates = Some(TRUE),
          !.passphrase = pp, !.user_ids = Some(uids),
          !.subkeys = Some(<<SubkeyParamsBuilder_build(
               [SubkeyParamsBuilder_default EXCEPT
                    !.key_type = Some(c[2]),
                    !.can_encrypt = Some(TRUE)]).value[1]>>)]
        : c \in {<<Rsa(2048), Rsa(2048)>>, <<EdDSA, ECDH>>},
          pp \in {None, Some(None), Some(Some("hello")), Some(Some(""))},
          uids \in SeqsUpTo(UserIdNames, MaxUserIds)}

\* What the unlock and sign callbacks of these scenarios return.
UnlockPassphrases == Passphrases \cup {""}

InitUnlock ==
    /\ phase = "built"
    /\ builder \in UnlockBuilders
    /\ built = SecretKeyParamsBuilder_build(builder)
    /\ Idle

\* signed_key.to_armored_string()
ToArmored ==
    /\ phase = "signed"
    /\ signRes.op = "SecretKey_sign"
    /\ signRes.status = "ok"
    /\ armor' = to_armored_string(signRes.value[1])
    /\ phase' = "armored"
    /\ UNCHANGED <<builder, subBuilt, setterCalls, built, osrng, ktgen, key,
                   signRes, parsed, unlockRes,
                   verifyRes>>

\* SignedSecretKey::from_string(armor)
FromString ==
    /\ phase = "armored"
    /\ armor.status = "ok"
    /\ parsed' = SignedSecretKey_from_string(armor.value[1])
    /\ phase' = "parsed"
    /\ UNCHANGED <<builder, subBuilt, setterCalls, built, osrng, ktgen, key,
                   signRes, armor, unlockRes,
                   verifyRes>>

\* parsed_key.unlock(|| pw, |_| Ok(()))
Unlock(pw) ==
    /\ phase = "parsed"
    /\ parsed.status = "ok"
    /\ LET r == SignedSecretKey_unlock(parsed.value[1], pw)
       IN  unlockRes' = [status |-> r.status, err |-> r.err, pw |-> pw]
    /\ phase' = "unlocked"
    /\ UNCHANGED <<builder, subBuilt, setterCalls, built, osrng, ktgen, key,
                   signRes, armor, parsed, verifyRes>>

NextUnlock ==
    \/ \E faults \in FaultSeqs : Generate(faults)
    \/ \E pw \in UnlockPassphrases : SecretKeySign(0, SignEnv(pw, 0, 1, 1))
    \/ ToArmored
    \/ FromString
    \/ \E pw \in UnlockPassphrases : Unlock(pw)

SpecUnlock == InitUnlock /\ [][NextUnlock]_vars

----------------------------------------------------------------------------
(* SignedSecretKey::verify on the parsed key, as the tests call it.         *)

\* Signature::verify_certificate / verify_key_binding: the signature was
\* made by the secret counterpart of the given public key, over the given
\* packet.
VerifiesUnder(sig, primary_key, tag, packet) ==
    /\ sig.signer = primary_key.details.public_params
    /\ sig.over = [tag |-> tag, packet |-> packet]

\* A component verifies when it has a signature and each of its signatures
\* verifies under the primary key.
ComponentVerifies(item, field, primary_key, tag) ==
    /\ Len(item.signatures) >= 1
    /\ \A j \in 1..Len(item.signatures) :
           VerifiesUnder(item.signatures[j], primary_key, tag, item[field])

\* SignedSecretKey::verify: the details (users, user attributes) and the
\* subkeys, each against the key's own primary key.
SignedSecretKey_verify(k) ==
    IF /\ \A i \in 1..Len(k.details.users) :
              ComponentVerifies(k.details.users[i], "id", k.primary_key,
                                "UserId")
       /\ \A i \in 1..Len(k.details.user_attributes) :
              ComponentVerifies(k.details.user_attributes[i], "attr",
                                k.primary_key, "UserAttribute")
       /\ \A i \in 1..Len(k.public_subkeys) :
              ComponentVerifies(k.public_subkeys[i], "key", k.primary_key,
                                "PublicSubkey")
       /\ \A i \in 1..Len(k.secret_subkeys) :
              ComponentVerifies(k.secret_subkeys[i], "key", k.primary_key,
                                "SecretSubkey")
    THEN Ok("unit")
    ELSE Err("invalid signature")

\* signed_key2.verify()
Verify ==
    /\ phase = "parsed"
    /\ parsed.status = "ok"
    /\ verifyRes' = SignedSecretKey_verify(parsed.value[1])
    /\ phase' = "verified"
    /\ UNCHANGED <<builder, subBuilt, setterCalls, built, osrng, ktgen, key,
                   signRes, armor, parsed, unlockRes>>

NextVerify ==
    \/ \E faults \in FaultSeqs : Generate(faults)
    \/ \E pw \in UnlockPassphrases : SecretKeySign(0, SignEnv(pw, 0, 1, 1))
    \/ ToArmored
    \/ FromString
    \/ Verify

SpecVerify == InitUnlock /\ [][NextVerify]_vars

----------------------------------------------------------------------------
(* Claims about the builders *)

ValidationErrors ==
    {"Keys with less than 2048bits are considered insecure",
     "EdDSA can only be used for signing keys",
     "ECDH can only be used for encryption keys"}

\* The combinations validation is to reject.
Rejected(b) ==
    /\ IsSome(b.key_type)
    /\ \/ b.key_type[1].tag = "Rsa" /\ b.key_type[1].size < 2048
       \/ b.key_type[1].tag = "EdDSA" /\ b.can_encrypt = Some(TRUE)
       \/ b.key_type[1].tag = "ECDH" /\ b.can_sign = Some(TRUE)

\* C1: build() of a primary-key builder returns a validation error, with no
\* key material generated and nothing drawn from the random source, exactly
\* when the key type is RSA below 2048 bits, EdDSA with can_encrypt = true
\* or ECDH with can_sign = true; every other combination of key type and
\* capability booleans, set or unset, passes validation, and builds once
\* key_type and primary_user_id are set.
C1_BuildValidates ==
    phase # "building" =>
        /\ Rejected(builder) =>
               /\ built.status = "err"
               /\ built.err \in ValidationErrors
               /\ key = NoKey
               /\ osrng = 0
        /\ ~Rejected(builder) =>
               /\ built.err \notin ValidationErrors
               /\ (IsSome(builder.key_type) /\ IsSome(builder.primary_user_id)
                      => built.status = "ok")

\* build() has rejected an ECDH builder with can_sign = true.
C1_Witness ==
    /\ phase = "built"
    /\ builder.key_type = Some(ECDH)
    /\ builder.can_sign = Some(TRUE)
    /\ builder.primary_user_id = Some("me")
    /\ built.status = "err"

\* C2: build() of a subkey builder with key type EdDSA and can_encrypt =
\* true returns a validation error, so no SecretKey that generate returns
\* has an EdDSA subkey with an encrypt key flag.
C2_SubkeyBuildValidates ==
    /\ (/\ subBuilt.result.status # "none"
        /\ subBuilt.builder.key_type = Some(EdDSA)
        /\ subBuilt.builder.can_encrypt = Some(TRUE))
           => subBuilt.result.status = "err"
    /\ key.status = "ok" =>
           \A i \in 1..Len(key.value[1].secret_subkeys) :
               LET sk == key.value[1].secret_subkeys[i]
               IN  sk.key.details.algorithm = "EdDSA" =>
                       /\ ~sk.keyflags.encrypt_comms
                       /\ ~sk.keyflags.encrypt_storage

----------------------------------------------------------------------------
(* Claims about generation *)

\* The raw parameters a key type yields from a drawn value.
Material(kt, r) ==
    CASE kt.tag = "Rsa" -> generate_rsa_key(r, kt.size, "none").value[1]
      [] kt.tag = "ECDH" -> generate_ecdh_key(r)
      [] kt.tag = "EdDSA" -> generate_eddsa_key(r)

\* C8: KeyType::generate returns Plain around the generated raw secret
\* fields when given no passphrase, and Encrypted (the raw fields under the
\* given passphrase, AES-256, checksum id 254, an S2K descriptor drawn in
\* this call) when given one; the public parameters are those the same call
\* returns without a passphrase; a failing encryption yields an error and
\* no parameters.
C8_KeyTypeGenerate ==
    ktgen.status = "done" =>
        LET r == ktgen.res
            first == Draw(ktgen.rng)
            out == r.value[1]
        IN  /\ (r.status = "ok" /\ ktgen.passphrase = None) =>
                   out.secret_params
                       = Plain(Material(ktgen.kt, first).plain)
            /\ (r.status = "ok" /\ ktgen.passphrase # None) =>
                   LET e == out.secret_params.params
                   IN  /\ out.secret_params.variant = "Encrypted"
                       /\ e.encryption_algorithm = "AES256"
                       /\ e.string_to_key_id = 254
                       /\ e.string_to_key.salt > ktgen.rng
                       /\ e.string_to_key.salt <= r.rng
                       /\ e.data.of = Material(ktgen.kt, first).plain
                       /\ e.data.under = S2K_derive(e.string_to_key,
                                                    ktgen.passphrase[1])
            /\ r.status = "ok" =>
                   out.public_params
                       = KeyType_generate(ktgen.kt, None, ktgen.rng,
                             "none").value[1].public_params
            /\ (ktgen.fault = "enc" /\ ktgen.passphrase # None) =>
                   r.status = "err"
            /\ r.status # "ok" => r.value = None

\* KeyType::generate has returned Encrypted parameters for a passphrase.
C8_Witness ==
    /\ ktgen.status = "done"
    /\ ktgen.passphrase = Some("hello")
    /\ ktgen.kt = ECDH
    /\ ktgen.res.status = "ok"
    /\ ktgen.res.value[1].secret_params.variant = "Encrypted"

\* The values handed to a setter, in call order.
CallsOf(setter) ==
    LET sel == SelectSeq(setterCalls, LAMBDA c : c.setter = setter)
    IN  [i \in 1..Len(sel) |-> sel[i].value]

\* The capability booleans of a configuration as key flags.
FlagsOfBooleans(can_certify, can_sign, can_encrypt) ==
    [certify |-> can_certify, sign |-> can_sign,
     encrypt_comms |-> can_encrypt, encrypt_storage |-> can_encrypt]

----------------------------------------------------------------------------
(* Claims about signing *)

Step(kind, index, tag, packet) ==
    [kind |-> kind, index |-> index, over |-> [tag |-> tag, packet |-> packet]]

\* The signing steps of a KeyDetails, of a list of public subkeys and of a
\* list of secret subkeys, in the order the claims state.
DetailsSteps(d) ==
    <<Step("primary_user_id", 0, "UserId", d.primary_user_id)>>
    \o [i \in 1..Len(d.user_ids) |->
           Step("user_id", i, "UserId", d.user_ids[i])]
    \o [i \in 1..Len(d.user_attributes) |->
           Step("user_attribute", i, "UserAttribute", d.user_attributes[i])]
PublicSubkeySteps(subs) ==
    [i \in 1..Len(subs) |->
        Step("public_subkey", i, "PublicSubkey", subs[i].key)]
SecretSubkeySteps(subs) ==
    [i \in 1..Len(subs) |->
        Step("secret_subkey", i, "SecretSubkey", subs[i].key)]

\* The signing steps the last sign call is to make.
ExpectedSteps ==
    CASE signRes.op = "SecretKey_sign" ->
             DetailsSteps(signRes.target.details)
             \o PublicSubkeySteps(signRes.target.public_subkeys)
             \o SecretSubkeySteps(signRes.target.secret_subkeys)
      [] signRes.op = "PublicKey_sign" ->
             DetailsSteps(signRes.target.details)
             \o PublicSubkeySteps(signRes.target.public_subkeys)
      [] signRes.op = "KeyDetails_sign" -> DetailsSteps(signRes.target)
      [] signRes.op = "PublicSubkey_sign" ->
             PublicSubkeySteps(<<signRes.target>>)
      [] signRes.op = "SecretSubkey_sign" ->
             SecretSubkeySteps(<<signRes.target>>)

HashedNames(h) == {h[i].name : i \in 1..Len(h)}
ValueOf(h, name) == h[CHOOSE i \in 1..Len(h) : h[i].name = name].val

\* The details signed by the last call that went through KeyDetails::sign.
SignedDetails ==
    IF signRes.op = "KeyDetails_sign" THEN signRes.target
    ELSE signRes.target.details

PreferenceNames ==
    {"PreferredSymmetricAlgorithms", "PreferredHashAlgorithms",
     "PreferredCompressionAlgorithms"}

\* What holds of every user id certification: generic certification, the
\* issuer attributes of the signing key, and the creation time, key flags
\* and preference lists of the details among the hashed attributes.
UserIdSignatureBase(sig, d) ==
    /\ sig.typ = "CertGeneric"
    /\ sig.method = "sign_certificate"
    /\ sig.unhashed_subpackets
           = <<Subpacket("Issuer", key_id(signRes.signer)[1]),
               Subpacket("IssuerFingerprint", fingerprint(signRes.signer))>>
    /\ Len(sig.hashed_subpackets)
           = Cardinality(HashedNames(sig.hashed_subpackets))
    /\ {"SignatureCreationTime", "KeyFlags"} \cup PreferenceNames
           \subseteq HashedNames(sig.hashed_subpackets)
    /\ ValueOf(sig.hashed_subpackets, "KeyFlags") = KeyFlags_into(d.keyflags)
    /\ ValueOf(sig.hashed_subpackets, "PreferredSymmetricAlgorithms")
           = d.preferred_symmetric_algorithms
    /\ ValueOf(sig.hashed_subpackets, "PreferredHashAlgorithms")
           = d.preferred_hash_algorithms
    /\ ValueOf(sig.hashed_subpackets, "PreferredCompressionAlgorithms")
           = d.preferred_compression_algorithms

\* The primary user id's certification: is-primary = true, and the
\* revocation key exactly when one is configured.
PrimaryUserIdSignature(sig, d) ==
    /\ UserIdSignatureBase(sig, d)
    /\ HashedNames(sig.hashed_subpackets)
           = {"IsPrimary", "SignatureCreationTime", "KeyFlags"}
             \cup PreferenceNames
             \cup (IF d.revocation_key # None THEN {"RevocationKey"} ELSE {})
    /\ ValueOf(sig.hashed_subpackets, "IsPrimary") = TRUE
    /\ d.revocation_key # None =>
           ValueOf(sig.hashed_subpackets, "RevocationKey")
               = d.revocation_key[1]

UserIdEntries(kind) ==
    {j \in 1..Len(signRes.log) :
        signRes.log[j].kind = kind /\ signRes.log[j].status = "ok"}

ThroughKeyDetails ==
    signRes.op \in {"KeyDetails_sign", "PublicKey_sign", "SecretKey_sign"}

\* C4 as stated: every user id self-signature is a generic certification
\* with the issuer key id and fingerprint of the signing key unhashed; the
\* primary user id's hashed attributes are is-primary, creation time, key
\* flags, the three preference lists and the revocation key when one is
\* configured; an additional user id's are the same without is-primary,
\* the revocation key when configured included.
C4_AsStated ==
    ThroughKeyDetails =>
        /\ \A j \in UserIdEntries("primary_user_id") :
               PrimaryUserIdSignature(signRes.log[j].sig[1], SignedDetails)
        /\ \A j \in UserIdEntries("user_id") :
               LET sig == signRes.log[j].sig[1]
               IN  /\ UserIdSignatureBase(sig, SignedDetails)
                   /\ HashedNames(sig.hashed_subpackets)
                          = {"SignatureCreationTime", "KeyFlags"}
                            \cup PreferenceNames
                            \cup (IF SignedDetails.revocation_key # None
                                  THEN {"RevocationKey"} ELSE {})

\* C4, amended: as stated for the primary user id; an additional user id's
\* hashed attributes are creation time, key flags and the three preference
\* lists only: neither is-primary nor the revocation key, configured or
\* not.
C4_UserIdSignatures ==
    ThroughKeyDetails =>
        /\ \A j \in UserIdEntries("primary_user_id") :
               PrimaryUserIdSignature(signRes.log[j].sig[1], SignedDetails)
        /\ \A j \in UserIdEntries("user_id") :
               LET sig == signRes.log[j].sig[1]
               IN  /\ UserIdSignatureBase(sig, SignedDetails)
                   /\ HashedNames(sig.hashed_subpackets)
                          = {"SignatureCreationTime", "KeyFlags"}
                            \cup PreferenceNames

\* KeyDetails::sign has certified the primary and an additional user id of
\* details with a revocation key.
C4_Witness ==
    /\ signRes.op = "KeyDetails_sign"
    /\ signRes.status = "ok"
    /\ signRes.target.revocation_key # None
    /\ UserIdEntries("user_id") # {}
    /\ UserIdEntries("primary_user_id") # {}

\* A subkey binding: one signature of type subkey binding, made by the given
\* primitive over the given packet, with the creation time and the subkey's
\* own key flags hashed and the signing key's issuer attributes unhashed.
BindingSignature(sig, method, over, keyflags) ==
    /\ sig.typ = "SubkeyBinding"
    /\ sig.method = method
    /\ sig.over = over
    /\ Len(sig.hashed_subpackets) = 2
    /\ HashedNames(sig.hashed_subpackets)
           = {"SignatureCreationTime", "KeyFlags"}
    /\ ValueOf(sig.hashed_subpackets, "KeyFlags") = KeyFlags_into(keyflags)
    /\ sig.unhashed_subpackets
           = <<Subpacket("Issuer", key_id(signRes.signer)[1]),
               Subpacket("IssuerFingerprint", fingerprint(signRes.signer))>>

SignedPublicSubkey(signed, sk) ==
    /\ signed.key = sk.key
    /\ Len(signed.signatures) = 1
    /\ BindingSignature(signed.signatures[1], "sign_key",
                        [tag |-> "PublicSubkey", packet |-> sk.key],
                        sk.keyflags)

SignedSecretSubkey(signed, sk) ==
    /\ signed.key = sk.key
    /\ Len(signed.signatures) = 1
    /\ BindingSignature(signed.signatures[1], "sign_key_binding",
                        [tag |-> "SecretSubkey", packet |-> sk.key],
                        sk.keyflags)

\* C5: PublicSubkey::sign and SecretSubkey::sign, called alone or from
\* PublicKey::sign and SecretKey::sign, return the subkey packet unchanged
\* with exactly one signature of type subkey binding, whose hashed
\* attributes are the creation time and that subkey's key flags and whose
\* unhashed attributes are the issuer key id and fingerprint of the signing
\* key; a secret subkey's signature is made over its secret-subkey packet
\* by the key-binding primitive, not taken from a public-subkey binding.
C5_SubkeyBinding ==
    signRes.status = "ok" =>
        /\ signRes.op = "PublicSubkey_sign" =>
               SignedPublicSubkey(signRes.value[1], signRes.target)
        /\ signRes.op = "SecretSubkey_sign" =>
               SignedSecretSubkey(signRes.value[1], signRes.target)
        /\ signRes.op \in {"PublicKey_sign", "SecretKey_sign"} =>
               /\ Len(signRes.value[1].public_subkeys)
                      = Len(signRes.target.public_subkeys)
               /\ \A i \in 1..Len(signRes.target.public_subkeys) :
                      SignedPublicSubkey(signRes.value[1].public_subkeys[i],
                                         signRes.target.public_subkeys[i])
        /\ signRes.op = "SecretKey_sign" =>
               /\ Len(signRes.value[1].secret_subkeys)
                      = Len(signRes.target.secret_subkeys)
               /\ \A i \in 1..Len(signRes.target.secret_subkeys) :
                      SignedSecretSubkey(signRes.value[1].secret_subkeys[i],
                                         signRes.target.secret_subkeys[i])

\* SecretSubkey::sign has bound an encryption subkey with a signing key
\* whose key flags differ from the subkey's.
C5_Witness ==
    /\ signRes.op = "SecretSubkey_sign"
    /\ signRes.status = "ok"
    /\ signRes.target.keyflags.encrypt_comms
    /\ signRes.target.keyflags # key.value[1].details.keyflags
    /\ signRes.signer = key.value[1].primary_key

StepStatuses == [j \in 1..Len(signRes.log) |-> signRes.log[j].status]

\* Of a call whose steps ended with the given statuses: only the last step
\* can have failed, the call ends as its last step ended, and it returns an
\* object exactly when it made all its steps and all succeeded.
StopsAtFailure(statuses, result, steps) ==
    /\ Len(statuses) >= 1
    /\ \A j \in 1..(Len(statuses) - 1) : statuses[j] = "ok"
    /\ result.status = statuses[Len(statuses)]
    /\ result.status = "ok" <=> result.value # None
    /\ result.status = "ok" => Len(statuses) = steps

C7_WitnessGenerate ==
    /\ key.status = "err"
    /\ key.log = <<"ok", "err">>

----------------------------------------------------------------------------
(* Claims about the key on the wire *)

\* C10: a secret key generated with a passphrase, then signed, serialized
\* and parsed, unlocks when the callback returns that passphrase and fails
\* with a decryption error when it returns any other string; a key
\* generated without passphrase unlocks whatever the callback returns.
C10_UnlockLaw ==
    unlockRes.status # "none" =>
        LET passphrase == built.value[1].passphrase
        IN  /\ passphrase = None => unlockRes.status = "ok"
            /\ (passphrase # None /\ unlockRes.pw = passphrase[1]) =>
                   unlockRes.status = "ok"
            /\ (passphrase # None /\ unlockRes.pw # passphrase[1]) =>
                   /\ unlockRes.status = "err"
                   /\ unlockRes.err = "decryption failed"

\* The parsed key, generated with the passphrase "hello", has refused to
\* unlock under "wrong".
C10_Witness ==
    /\ unlockRes.status = "err"
    /\ unlockRes.pw = "wrong"
    /\ built.value[1].passphrase = Some("hello")
    /\ parsed.status = "ok"
    /\ parsed.value[1].primary_key = key.value[1].primary_key

\* C11: for an RSA primary key with an RSA subkey, with or without
\* passphrase, and for an EdDSA primary key with an ECDH subkey, the key
\* generated, signed by SecretKey::sign, armored and parsed verifies: every
\* user id of the configuration and every subkey comes back with its one
\* signature, made by the key's own primary key over that packet.
C11_RoundTrip ==
    verifyRes.status # "none" =>
        /\ verifyRes.status = "ok"
        /\ parsed.value[1].primary_key = key.value[1].primary_key
        /\ Len(parsed.value[1].details.users)
               = 1 + Len(built.value[1].user_ids)
        /\ Len(parsed.value[1].secret_subkeys)
               = Len(built.value[1].subkeys)
        /\ \A i \in 1..Len(parsed.value[1].details.users) :
               ComponentVerifies(parsed.value[1].details.users[i], "id",
                                 key.value[1].primary_key, "UserId")
        /\ \A i \in 1..Len(parsed.value[1].secret_subkeys) :
               /\ parsed.value[1].secret_subkeys[i].key
                      = key.value[1].secret_subkeys[i].key
               /\ ComponentVerifies(parsed.value[1].secret_subkeys[i], "key",
                                    key.value[1].primary_key, "SecretSubkey")

\* The parsed EdDSA key with an ECDH subkey and two additional user ids,
\* generated with a passphrase, has verified.
C11_Witness ==
    /\ verifyRes.status = "ok"
    /\ built.value[1].key_type = EdDSA
    /\ built.value[1].subkeys[1].key_type = ECDH
    /\ built.value[1].passphrase = Some("hello")
    /\ Len(parsed.value[1].details.users) = 3
    /\ Len(parsed.value[1].secret_subkeys) = 1

----------------------------------------------------------------------------
(* Claims about a signing key without key id *)

\* C12: when the signing key has no key id, KeyDetails::sign,
\* PublicSubkey::sign and SecretSubkey::sign (and PublicKey::sign and
\* SecretKey::sign through them) abort by a panic, not an error result,
\* before the signing primitive or the passphrase callback is invoked for
\* that signature; this happens at the first signing step, in
\* KeyDetails::sign the primary user id, so no signature is produced.
C12_MissingKeyIdPanics ==
    (signRes.op # "none" /\ key_id(signRes.signer) = None) =>
        /\ signRes.status = "panic"
        /\ signRes.err = "missing key id"
        /\ signRes.value = None
        /\ signRes.calls = 0
        /\ signRes.prim = 0
        /\ Len(signRes.log) = 1
        /\ signRes.log[1].status = "panic"
        /\ signRes.log[1].sig = None
        /\ ThroughKeyDetails => signRes.log[1].kind = "primary_user_id"
        /\ signRes.op = "PublicSubkey_sign" =>
               signRes.log[1].kind = "public_subkey"
        /\ signRes.op = "SecretSubkey_sign" =>
               signRes.log[1].kind = "secret_subkey"

\* KeyDetails::sign of details with an additional user id, called with a
\* passphrase-protected signing key without key id, has panicked.
C12_Witness ==
    /\ signRes.op = "KeyDetails_sign"
    /\ key_id(signRes.signer) = None
    /\ NeedsPassphrase(signRes.signer)
    /\ Len(signRes.target.user_ids) >= 1
    /\ signRes.status = "panic"

\* SecretSubkey::sign, called with a passphrase-protected signing key
\* without key id, has panicked.
C12_WitnessSubkey ==
    /\ signRes.op = "SecretSubkey_sign"
    /\ key_id(signRes.signer) = None
    /\ NeedsPassphrase(signRes.signer)
    /\ signRes.status = "panic"

----------------------------------------------------------------------------
(* Claims about the generated packets *)

\* How often the range of a 16-bit integer fits into the largest duration.
MaxWraps == 2

\* stored is what a packet holds for the configured expiration: nothing
\* for none, otherwise the seconds less a multiple of 2^16, below 2^16.
StoredExpiration(configured, stored) ==
    IF configured = None THEN stored = None
    ELSE /\ stored # None
         /\ stored[1] \in 0..65535
         /\ \E q \in 0..MaxWraps : configured[1] = q * 65536 + stored[1]
         /\ stored[1] = configured[1] <=> configured[1] < 65536

\* C13: the expiration in a generated primary key or subkey packet is absent
\* when none was configured and otherwise the configured seconds modulo
\* 2^16, which is the configured number only below 65536 seconds.
C13_ExpirationCast ==
    key.status = "ok" =>
        /\ StoredExpiration(built.value[1].expiration,
                            key.value[1].primary_key.details.expiration)
        /\ \A i \in 1..Len(key.value[1].secret_subkeys) :
               StoredExpiration(
                   built.value[1].subkeys[i].expiration,
                   key.value[1].secret_subkeys[i].key.details.expiration)

\* A key is generated whose primary key was configured with 69136 seconds
\* and holds 3600, and whose subkey was configured with 65536 seconds and
\* holds 0.
C13_Witness ==
    /\ key.status = "ok"
    /\ built.value[1].expiration = Some(69136)
    /\ key.value[1].primary_key.details.expiration = Some(3600)
    /\ Len(key.value[1].secret_subkeys) = 1
    /\ built.value[1].subkeys[1].expiration = Some(65536)
    /\ key.value[1].secret_subkeys[1].key.details.expiration = Some(0)

\* The secret parameters are Encrypted, under the given passphrase, when
\* the configuration has one, and Plain when it has none.
ProtectedAsConfigured(secret_params, passphrase) ==
    /\ secret_params.variant = "Encrypted" <=> passphrase # None
    /\ secret_params.variant = "Plain" <=> passphrase = None
    /\ passphrase # None =>
           secret_params.params.data.under
               = S2K_derive(secret_params.params.string_to_key,
                            passphrase[1])

\* C14: in every key generate returns, the primary key's secret parameters
\* are Encrypted exactly when the primary configuration has a passphrase
\* and each subkey's exactly when that subkey's own configuration has one;
\* the primary passphrase is never applied to a subkey.
C14_PassphrasePerKey ==
    key.status = "ok" =>
        /\ ProtectedAsConfigured(key.value[1].primary_key.secret_params,
                                 built.value[1].passphrase)
        /\ \A i \in 1..Len(key.value[1].secret_subkeys) :
               ProtectedAsConfigured(
                   key.value[1].secret_subkeys[i].key.secret_params,
                   built.value[1].subkeys[i].passphrase)

\* A key is generated with a primary key Encrypted under its passphrase
\* and a Plain subkey that was configured without one.
C14_Witness ==
    /\ key.status = "ok"
    /\ built.value[1].passphrase = Some("hello")
    /\ key.value[1].primary_key.secret_params.variant = "Encrypted"
    /\ Len(key.value[1].secret_subkeys) = 1
    /\ built.value[1].subkeys[1].passphrase = None
    /\ key.value[1].secret_subkeys[1].key.secret_params.variant = "Plain"

====
